---- MODULE Spec2Model ----
(***************************************************************************)
(* Electricity-cut notifier: the PDF text extraction and the line search   *)
(* (pdf_parser.py), the location filter, the per-document loop of          *)
(* check_for_cuts and the notification step of main (main.py), with the    *)
(* PDF cache directory and the download (scraper.py).                      *)
(*                                                                         *)
(* Text is a sequence of characters.  A keyword of the three regular       *)
(* expressions, a date and a time are each written as one character of the *)
(* alphabet below (the Cyrillic keywords are transliterated); letters,     *)
(* the hyphen and the space are single characters.  A line is a sequence   *)
(* of characters, a text is a sequence of lines (the text split on "\n").  *)
(***************************************************************************)
EXTENDS Integers, Sequences, FiniteSets, TLC

\* ------------------------------------------------------------ state
VARIABLES
    docs,                  \* documents of check_for_cuts
    monitored_cities,      \* config['monitored_cities'] / the cities argument
    cache,                 \* pdf_cache_dir: date of cuts_<date>.pdf -> file
    idx,                   \* position of the for loop over documents
    pc,                    \* where the program is
    results,               \* results of check_for_cuts: date -> cuts
    pdf_path,              \* pdf_path of the current document / parser
    text,                  \* parser.text, as lines
    li,                    \* position of the for loop over lines
    current_region,
    current_municipality,
    cuts,                  \* cuts of extract_cut_details / check_for_cuts
    filtered_cuts,         \* the last result of filter_cuts_by_city
    downloaded_for,        \* date of a cached file -> the doc_id it was
                           \* downloaded with (0: no file)
    email_recipients,      \* config['email_recipients']
    email_attempts,        \* messages send_notification tried to send
    city_name,             \* the argument of the last search_city (or None)
    matches                \* the result of the last search_city

vars == <<docs, monitored_cities, cache, idx, pc, results, pdf_path, text, li,
          current_region, current_municipality, cuts, filtered_cuts,
          downloaded_for, email_recipients, email_attempts, city_name,
          matches>>

\* ------------------------------------------------------------ bounds
\* Longest text, in lines, of a PDF handed to one parser (FnSpec).
MaxLines == 3
\* Longest document listing returned by the scraper (Spec).
MaxDocs == 2

\* ------------------------------------------------------------ alphabet
SP == " "
KwRegion == "oblast"
KwMunicipality == "obshtina"
KwPart == "Chast ot"
KwIndividual == "Za individualna"
Dates == {"18.11.2025", "19.11.2025"}
Times == {"08:30", "16:30"}

\* None, as distinct from the empty string <<>>.
None == <<"<None>">>
\* PDFCutParser.text before any successful extract_text.
NoText == <<None>>
\* The empty string, split on "\n": one empty line.
EmptyText == << <<>> >>
\* A cities argument that is None.
NoCities == <<None>>

SetMin(S) == CHOOSE x \in S : \A y \in S : x <= y
SetMax(S) == CHOOSE x \in S : \A y \in S : x >= y

\* ------------------------------------------------------------ strings
\* str.strip(): leading and trailing whitespace removed.
strip(s) ==
    LET keep == {i \in 1..Len(s) : s[i] # SP}
    IN  IF keep = {} THEN <<>> ELSE SubSeq(s, SetMin(keep), SetMax(keep))

\* str.upper(), character by character.
upper_char(c) ==
    CASE c = "s" -> "S"
      [] c = "p" -> "P"
      [] c = KwRegion -> "OBLAST"
      [] c = KwMunicipality -> "OBSHTINA"
      [] c = KwPart -> "CHAST OT"
      [] c = KwIndividual -> "ZA INDIVIDUALNA"
      [] OTHER -> c

upper(s) == [i \in 1..Len(s) |-> upper_char(s[i])]

\* Python's `needle in haystack` on strings.
str_in(needle, haystack) ==
    \E i \in 0..(Len(haystack) - Len(needle)) :
        SubSeq(haystack, i + 1, i + Len(needle)) = needle

\* ------------------------------------------------------------ patterns
\* First position at or after i that holds no whitespace (Len + 1 if none).
skip_space(line, i) ==
    SetMin({j \in i..(Len(line) + 1) : j = Len(line) + 1 \/ line[j] # SP})

\* A header pattern  kw " " (.+?) " " tail  searched in a line: the leftmost
\* start, and for it the shortest group (the group is lazy).
header_search(line, kw, tail) ==
    LET ends(s) == {e \in (s + 3)..(Len(line) - 1) :
                        line[e] = SP /\ line[e + 1] = tail}
        starts == {s \in 1..(Len(line) - 1) :
                        line[s] = kw /\ line[s + 1] = SP /\ ends(s) # {}}
    IN  IF starts = {}
        THEN [found |-> FALSE, group |-> <<>>]
        ELSE LET s == SetMin(starts)
             IN  [found |-> TRUE,
                  group |-> SubSeq(line, s + 2, SetMin(ends(s)) - 1)]

\* region_pattern = re.compile(r'област (.+?) Част от')
region_pattern_search(line) == header_search(line, KwRegion, KwPart)

\* municipality_pattern = re.compile(r'община (.+?) За индивидуална')
municipality_pattern_search(line) ==
    header_search(line, KwMunicipality, KwIndividual)

\* The tail of cut_pattern from position e:
\*   \s+ (date) \s+ (time) \s+ (date) \s+ (time)
\* A date or time is followed by whitespace, except the last time, which may
\* be followed by anything.
cut_tail(line, e) ==
    LET a == skip_space(line, e)
        b == skip_space(line, a + 1)
        c == skip_space(line, b + 1)
        d == skip_space(line, c + 1)
        ok == /\ a > e /\ a <= Len(line) /\ line[a] \in Dates
              /\ b > a + 1 /\ b <= Len(line) /\ line[b] \in Times
              /\ c > b + 1 /\ c <= Len(line) /\ line[c] \in Dates
              /\ d > c + 1 /\ d <= Len(line) /\ line[d] \in Times
    IN  IF ok
        THEN [ok |-> TRUE, date_start |-> <<line[a]>>, time_start |-> <<line[b]>>,
              date_end |-> <<line[c]>>, time_end |-> <<line[d]>>]
        ELSE [ok |-> FALSE, date_start |-> <<>>, time_start |-> <<>>,
              date_end |-> <<>>, time_end |-> <<>>]

\* cut_pattern.search(line): r'Част от (.+?)\s+' then the four date/time
\* groups; the leftmost start, and for it the shortest location group.
cut_pattern_search(line) ==
    LET ends(s) == {e \in (s + 3)..Len(line) : cut_tail(line, e).ok}
        starts == {s \in 1..(Len(line) - 1) :
                        line[s] = KwPart /\ line[s + 1] = SP /\ ends(s) # {}}
    IN  IF starts = {}
        THEN [found |-> FALSE, group1 |-> <<>>, tail |-> cut_tail(line, Len(line) + 1)]
        ELSE LET s == SetMin(starts)
                 e == SetMin(ends(s))
             IN  [found |-> TRUE, group1 |-> SubSeq(line, s + 2, e - 1),
                  tail |-> cut_tail(line, e)]

\* ------------------------------------------------------------ records
\* The dict appended by extract_cut_details for one cut_pattern match.
cut_record(line, m, region, municipality) ==
    [location |-> strip(m.group1),
     date_start |-> m.tail.date_start,
     time_start |-> m.tail.time_start,
     date_end |-> m.tail.date_end,
     time_end |-> m.tail.time_end,
     region |-> region,
     municipality |-> municipality,
     full_line |-> strip(line)]

\* ------------------------------------------------------------ PDF files
\* A file of the cache directory: whether it exists, whether PdfReader can
\* open it, and its pages; a page either raises in extract_text() (ok = FALSE)
\* or yields a text, held as its lines (a page without text yields "").
NoFile == [exists |-> FALSE, readable |-> FALSE, pages |-> <<>>]
Page(ls) == [ok |-> TRUE, text |-> ls]
FailedPage == [ok |-> FALSE, text |-> EmptyText]
Pdf(ps) == [exists |-> TRUE, readable |-> TRUE, pages |-> ps]
Garbage == [exists |-> TRUE, readable |-> FALSE, pages |-> <<>>]

\* '\n'.join(text_content), seen as lines: the pages' lines one after
\* another; no page at all joins to the empty string.
RECURSIVE concat_pages(_)
concat_pages(ps) ==
    IF ps = <<>> THEN <<>> ELSE Head(ps).text \o concat_pages(Tail(ps))

join_pages(ps) == IF ps = <<>> THEN EmptyText ELSE concat_pages(ps)

\* PDFCutParser.extract_text on a parser whose text is still None: the value
\* of self.text afterwards.  Any exception (no such file, an unreadable
\* file, a page whose extract_text() raises) leaves it None.
extract_text(file) ==
    IF file.exists /\ file.readable /\ \A i \in 1..Len(file.pages) : file.pages[i].ok
    THEN join_pages(file.pages)
    ELSE NoText

\* `not self.text`
falsy(t) == t = NoText \/ t = EmptyText

\* ------------------------------------------------------------ one line
\* current_region = None; current_municipality = None
\* Faulty variant: the context of the previous pass is kept.
stale_context == [region |-> current_region, municipality |-> current_municipality]

initial_context == [region |-> None, municipality |-> None]

\* Faulty variant: the captured name is not stripped.
next_region_unstripped(region, line) ==
    LET m == region_pattern_search(line)
    IN  IF m.found THEN m.group ELSE region

\* if region_match: current_region = region_match.group(1).strip()
next_region(region, line) ==
    LET m == region_pattern_search(line)
    IN  IF m.found THEN strip(m.group) ELSE region

\* if muni_match: current_municipality = muni_match.group(1).strip()
next_municipality(municipality, line) ==
    LET m == municipality_pattern_search(line)
    IN  IF m.found THEN strip(m.group) ELSE municipality

\* Faulty variant: the record is inserted at the front.
next_cuts_prepend(cs, line, region, municipality) ==
    LET m == cut_pattern_search(line)
    IN  IF m.found
        THEN <<cut_record(line, m, region, municipality)>> \o cs
        ELSE cs

\* Faulty variant: a match without header context is dropped.
next_cuts_requiring_region(cs, line, region, municipality) ==
    LET m == cut_pattern_search(line)
    IN  IF m.found /\ region # None /\ municipality # None
        THEN Append(cs, cut_record(line, m, region, municipality))
        ELSE cs

\* Faulty variant: a line that only begins a cut detail yields a record too.
next_cuts_partial(cs, line, region, municipality) ==
    LET m == cut_pattern_search(line)
    IN  IF m.found \/ str_in(<<KwPart, SP>>, line)
        THEN Append(cs, cut_record(line, m, region, municipality))
        ELSE cs

\* Faulty variant: finditer in place of search, a second occurrence on the
\* line is recorded as well.
next_cuts_every_occurrence(cs, line, region, municipality) ==
    LET m == cut_pattern_search(line)
        parts == {s \in 1..Len(line) : line[s] = KwPart}
        rest == IF parts = {} THEN <<>>
                ELSE SubSeq(line, SetMin(parts) + 1, Len(line))
        m2 == cut_pattern_search(rest)
        one == IF m.found
               THEN Append(cs, cut_record(line, m, region, municipality))
               ELSE cs
    IN  IF m.found /\ m2.found
        THEN Append(one, cut_record(line, m2, region, municipality))
        ELSE one

\* if cut_match: cuts.append({...})
next_cuts(cs, line, region, municipality) ==
    LET m == cut_pattern_search(line)
    IN  IF m.found
        THEN Append(cs, cut_record(line, m, region, municipality))
        ELSE cs

\* extract_cut_details as a whole, from position i of the loop on.
RECURSIVE scan_from(_, _, _, _, _)
scan_from(t, i, region, municipality, cs) ==
    IF i > Len(t) THEN cs
    ELSE LET r == next_region(region, t[i])
             m == next_municipality(municipality, t[i])
         IN  scan_from(t, i + 1, r, m, next_cuts(cs, t[i], r, m))

\* PDFCutParser(path).extract_cut_details() for the file at path.
extract_cut_details(file) ==
    LET t == extract_text(file)
    IN  IF falsy(t) THEN <<>>
        ELSE scan_from(t, 1, initial_context.region,
                       initial_context.municipality, <<>>)

\* ------------------------------------------------------------ filter
\* The inner loop of filter_cuts_by_city from the k-th city on: what it
\* appends for one cut (it breaks at the first city found in the location).
\* Faulty variant: the inner loop does not break.
RECURSIVE append_if_monitored_no_break(_, _, _)
append_if_monitored_no_break(cut, cities_upper, k) ==
    IF k > Len(cities_upper) THEN <<>>
    ELSE (IF str_in(cities_upper[k], upper(cut.location)) THEN <<cut>> ELSE <<>>)
            \o append_if_monitored_no_break(cut, cities_upper, k + 1)

RECURSIVE append_if_monitored(_, _, _)
append_if_monitored(cut, cities_upper, k) ==
    IF k > Len(cities_upper) THEN <<>>
    ELSE IF str_in(cities_upper[k], upper(cut.location)) THEN <<cut>>
    ELSE append_if_monitored(cut, cities_upper, k + 1)

RECURSIVE filter_loop(_, _)
filter_loop(cs, cities_upper) ==
    IF cs = <<>> THEN <<>>
    ELSE append_if_monitored(Head(cs), cities_upper, 1)
            \o filter_loop(Tail(cs), cities_upper)

\* `not cities`: an empty list, or None.
no_cities(cities) == cities = <<>> \/ cities = NoCities

\* Faulty variant: the cities are not upper-cased.
filter_cuts_by_city_no_upper(cs, cities) ==
    IF no_cities(cities) THEN cs ELSE filter_loop(cs, cities)

\* Faulty variant: no early return for an empty list.
filter_cuts_by_city_no_passthrough(cs, cities) ==
    filter_loop(cs, IF no_cities(cities) THEN <<>>
                    ELSE [k \in 1..Len(cities) |-> upper(cities[k])])

filter_cuts_by_city(cs, cities) ==
    IF no_cities(cities) THEN cs
    ELSE filter_loop(cs, [k \in 1..Len(cities) |-> upper(cities[k])])

\* ------------------------------------------------------------ search
\* `if not self.text: self.extract_text()`: the text the parser holds next.
ensure_text(parser_text, file) ==
    IF falsy(parser_text) THEN extract_text(file) ELSE parser_text

\* re.compile(re.escape(city_name), re.IGNORECASE).search(line)
city_pattern_search(city, line) ==
    \E i \in 0..(Len(line) - Len(city)) :
        \A j \in 1..Len(city) : upper_char(line[i + j]) = upper_char(city[j])

\* Faulty variant: enumerate(lines) counts from 0.
search_city_zero_based(t, city) ==
    IF falsy(t) THEN <<>>
    ELSE LET hit(i) == city_pattern_search(city, t[i])
             at == SelectSeq([i \in 1..Len(t) |-> i], hit)
         IN  [k \in 1..Len(at) |->
                 [line_number |-> at[k] - 1, text |-> strip(t[at[k]])]]

\* search_city on a parser that holds the text t, from `if not self.text:
\* return []` on.
search_city(t, city) ==
    IF falsy(t) THEN <<>>
    ELSE LET hit(i) == city_pattern_search(city, t[i])
             at == SelectSeq([i \in 1..Len(t) |-> i], hit)
         IN  [k \in 1..Len(at) |->
                 [line_number |-> at[k], text |-> strip(t[at[k]])]]

\* ------------------------------------------------------------ inputs
D1 == "18.11.2025"
D2 == "19.11.2025"
T1 == "08:30"
T2 == "16:30"

\* "oblast P Chast ot x": a region header.
LineRegion == <<KwRegion, SP, "P", SP, KwPart, SP, "x">>
\* "oblast  S  Chast ot": a region header whose name is padded with spaces.
LineRegionPadded == <<KwRegion, SP, SP, "S", SP, SP, KwPart>>
\* "obshtina P Za individualna": a municipality header.
LineMunicipality == <<KwMunicipality, SP, "P", SP, KwIndividual>>
\* "Chast ot S-P <date> <time> <date> <time>": a cut in S-P.
LineCut == <<KwPart, SP, "S", "-", "P", SP, D1, SP, T1, SP, D1, SP, T2>>
\* " Chast ot s  <date> <time> <date> <time>": a cut in s, other dates.
LineCutLower == <<SP, KwPart, SP, "s", SP, SP, D2, SP, T1, SP, D2, SP, T2>>
\* "Chast ot   <date> ...": three spaces and no location name.
LineCutBlank == <<KwPart, SP, SP, SP, D1, SP, T1, SP, D1, SP, T2>>
\* "oblast S Chast ot P <date> ...": a region header and a cut on one line.
LineRegionAndCut ==
    <<KwRegion, SP, "S", SP, KwPart, SP, "P", SP, D1, SP, T1, SP, D2, SP, T2>>
\* "x": a line no pattern matches.
LineNoise == <<"x">>

LinePool ==
    {LineRegion, LineRegionPadded, LineMunicipality, LineCut, LineCutLower,
     LineCutBlank, LineRegionAndCut, LineNoise, <<>>}

\* A date with a two-digit year, which \d{2}\.\d{2}\.\d{4} does not match.
BadDate == "18.11.25"
\* "Chast ot S <date> <time> <date> <time> Chast ot P <date> ...": two cuts
\* on one line.
LineTwoCuts ==
    <<KwPart, SP, "S", SP, D1, SP, T1, SP, D1, SP, T2, SP,
      KwPart, SP, "P", SP, D2, SP, T1, SP, D2, SP, T2>>
\* "Chast ot P 18.11.25 <time> <date> <time>": a cut whose start date is
\* malformed.
LineMalformed == <<KwPart, SP, "P", SP, BadDate, SP, T1, SP, D1, SP, T2>>
\* "Chast ot S 18.11.25 <time> Chast ot P <date> <time> <date> <time>": a cut
\* whose start date is malformed, then a well-formed cut.
LineMalformedThenCut ==
    <<KwPart, SP, "S", SP, BadDate, SP, T1, SP,
      KwPart, SP, "P", SP, D2, SP, T1, SP, D2, SP, T2>>
\* "obshtina S Za individualna Chast ot P <date> ...": a municipality header
\* and a cut on one line.
LineMunicipalityAndCut ==
    <<KwMunicipality, SP, "S", SP, KwIndividual, SP,
      KwPart, SP, "P", SP, D1, SP, T1, SP, D1, SP, T2>>

LongLines ==
    {LineTwoCuts, LineMalformed, LineMalformedThenCut, LineMunicipalityAndCut}

\* All texts of 1..n lines of the pool.
Texts(n) == UNION {[1..k -> LinePool] : k \in 1..n}

\* All texts of 1..n lines of the pool and of the long lines.
LongTexts(n) == UNION {[1..k -> LinePool \cup LongLines] : k \in 1..n}

\* The PDFs the website serves in Spec.
Bulletins ==
    {Pdf(<<Page(<<LineRegion, LineCut>>)>>),
     Pdf(<<Page(<<LineCut>>)>>),
     Pdf(<<Page(<<LineMunicipality>>), Page(<<LineCutLower, LineCut>>)>>),
     Pdf(<<Page(<<LineCut>>), FailedPage>>),
     Pdf(<<Page(<<LineNoise>>), Page(EmptyText)>>),
     Pdf(<<>>),
     Garbage}

\* The PDFs handed to one parser in FnSpec.
FnFiles ==
    {Pdf(<<Page(t)>>) : t \in Texts(MaxLines) \cup LongTexts(MaxLines - 1)}
        \cup Bulletins \cup {NoFile}

\* Lists of monitored city names.
CityLists ==
    {<<>>, NoCities,
     << <<"s">> >>,
     << <<"P">>, <<"S", "-", "P">> >>,
     << <<"s">>, <<"s">> >>,
     << <<"x">> >>}

\* The city names passed to search_city.
CityNames == {<<>>, <<"s">>, <<"P">>, <<"S", "-", "P">>, <<"x">>}

\* config['email_recipients'], before validation.
RecipientLists == {<<>>, <<"r">>}

\* The listings get_latest_cuts may return: up to MaxDocs documents, each
\* with its own doc_id and with the date of its badge.
DocId(i) == 1480 + i
\* The file an earlier run left in the cache directory.
CachedBulletin == Pdf(<<Page(<<LineCutLower>>)>>)
Listings ==
    UNION {{[i \in 1..n |-> [doc_id |-> DocId(i), date |-> ds[i]]] :
                ds \in [1..n -> Dates]} : n \in 0..MaxDocs}

\* ------------------------------------------------------------ initial states
NoPath == "None"
NoResults == [d \in {} |-> <<>>]

\* A PDFCutParser was just constructed, nothing is parsed yet.
FreshParser ==
    /\ text = NoText
    /\ li = 1
    /\ current_region = None
    /\ current_municipality = None
    /\ cuts = <<>>
    /\ filtered_cuts = <<>>
    /\ results = NoResults
    /\ city_name = None
    /\ matches = <<>>

\* main() is entered: the configuration as loaded, the listing to come, and
\* the cache directory as earlier runs left it: for each date no file, or a
\* file downloaded for the document of an earlier listing (DocId(0)) or for
\* the first document of this one.
Init ==
    /\ docs \in Listings
    /\ monitored_cities \in CityLists
    /\ email_recipients \in RecipientLists
    /\ email_attempts = 0
    /\ downloaded_for \in [Dates -> {0, DocId(0), DocId(1)}]
    /\ cache = [d \in Dates |->
                   IF downloaded_for[d] = 0 THEN NoFile ELSE CachedBulletin]
    /\ idx = 1
    /\ pc = "main"
    /\ pdf_path = NoPath
    /\ FreshParser

\* PDFCutParser(pdf_path) on some file, to be called directly.
FnInit ==
    /\ docs = <<>>
    /\ monitored_cities = <<>>
    /\ email_recipients = <<>>
    /\ email_attempts = 0
    /\ downloaded_for = [d \in Dates |-> 0]
    /\ pdf_path = D1
    /\ \E f \in FnFiles : cache = [d \in Dates |-> IF d = D1 THEN f ELSE NoFile]
    /\ idx = 1
    /\ pc = "fn_idle"
    /\ FreshParser

\* ------------------------------------------------------------ actions
\* validate_config: monitored_cities and email_recipients must be non-empty
\* lists (the SMTP settings and the sender's credentials, checked the same
\* way, are taken as set).
config_valid ==
    /\ ~no_cities(monitored_cities)
    /\ email_recipients # <<>>

\* CutNotifier(): load_config, then validate_config, which raises ValueError
\* on an invalid configuration; main re-raises it.
Construct ==
    /\ pc = "main"
    /\ pc' = IF config_valid THEN "idle" ELSE "raised"
    /\ UNCHANGED <<docs, monitored_cities, cache, idx, results, pdf_path, text,
                   li, current_region, current_municipality, cuts,
                   filtered_cuts, downloaded_for, email_recipients,
                   email_attempts, city_name, matches>>

\* extract_cut_details up to its loop, on a parser of `file` that holds
\* parser_text: extract_text if there is no text yet, the early return, the
\* loop's initial state.
begin_extract(file, parser_text) ==
    LET t == ensure_text(parser_text, file)
    IN  /\ text' = t
        /\ cuts' = <<>>
        /\ li' = 1
        /\ IF falsy(t)
           THEN /\ pc' = "parsed"
                /\ UNCHANGED <<current_region, current_municipality>>
           ELSE /\ pc' = "scan"
                /\ current_region' = initial_context.region
                /\ current_municipality' = initial_context.municipality

\* Faulty variant: the record is built before the headers of its line are
\* looked at.
ScanLine_record_first ==
    /\ pc = "scan"
    /\ LET line == text[li]
           region == next_region(current_region, line)
           municipality == next_municipality(current_municipality, line)
           cs == next_cuts(cuts, line, current_region, current_municipality)
       IN  /\ current_region' = region
           /\ current_municipality' = municipality
           /\ cuts' = cs
    /\ li' = li + 1
    /\ pc' = IF li = Len(text) THEN "parsed" ELSE "scan"
    /\ UNCHANGED <<docs, monitored_cities, cache, idx, results, pdf_path, text,
                   filtered_cuts, downloaded_for, email_recipients,
                   email_attempts, city_name, matches>>

\* Faulty variant: a region header starts a new region and forgets the
\* municipality.
ScanLine_region_resets_municipality ==
    /\ pc = "scan"
    /\ LET line == text[li]
           region == next_region(current_region, line)
           municipality ==
               next_municipality(IF region_pattern_search(line).found
                                 THEN None ELSE current_municipality, line)
           cs == next_cuts(cuts, line, region, municipality)
       IN  /\ current_region' = region
           /\ current_municipality' = municipality
           /\ cuts' = cs
    /\ li' = li + 1
    /\ pc' = IF li = Len(text) THEN "parsed" ELSE "scan"
    /\ UNCHANGED <<docs, monitored_cities, cache, idx, results, pdf_path, text,
                   filtered_cuts, downloaded_for, email_recipients,
                   email_attempts, city_name, matches>>

\* One iteration of `for line in lines`.
ScanLine ==
    /\ pc = "scan"
    /\ LET line == text[li]
           region == next_region(current_region, line)
           municipality == next_municipality(current_municipality, line)
           cs == next_cuts(cuts, line, region, municipality)
       IN  /\ current_region' = region
           /\ current_municipality' = municipality
           /\ cuts' = cs
    /\ li' = li + 1
    /\ pc' = IF li = Len(text) THEN "parsed" ELSE "scan"
    /\ UNCHANGED <<docs, monitored_cities, cache, idx, results, pdf_path, text,
                   filtered_cuts, downloaded_for, email_recipients,
                   email_attempts, city_name, matches>>

\* download_and_parse_pdf(doc) up to the loop of extract_cut_details: the
\* file cuts_<date>.pdf is downloaded with the document's doc_id unless it
\* exists, then parsed by a new PDFCutParser.
StartDoc ==
    /\ pc = "idle"
    /\ idx <= Len(docs)
    /\ LET path == docs[idx].date
       IN  \E file \in (IF cache[path].exists THEN {cache[path]}
                        ELSE Bulletins \cup {NoFile}) :
               IF file.exists
               THEN /\ cache' = [cache EXCEPT ![path] = file]
                    /\ downloaded_for' =
                         IF cache[path].exists THEN downloaded_for
                         ELSE [downloaded_for EXCEPT ![path] = docs[idx].doc_id]
                    /\ pdf_path' = path
                    /\ begin_extract(file, NoText)
               ELSE /\ pdf_path' = NoPath
                    /\ cuts' = <<>>
                    /\ pc' = "parsed"
                    /\ UNCHANGED <<cache, downloaded_for, text, li,
                                   current_region, current_municipality>>
    /\ UNCHANGED <<docs, monitored_cities, idx, results, filtered_cuts,
                   email_recipients, email_attempts, city_name, matches>>

\* Faulty variant: `break` in place of `continue`.
FinishDoc_break ==
    /\ pc = "parsed"
    /\ IF cuts = <<>>
       THEN /\ pc' = "done"
            /\ UNCHANGED <<results, filtered_cuts, idx>>
       ELSE LET f == filter_cuts_by_city(cuts, monitored_cities)
                date == docs[idx].date
            IN  /\ filtered_cuts' = f
                /\ results' =
                     IF f # <<>>
                     THEN [d \in DOMAIN results \cup {date} |->
                             IF d = date THEN f ELSE results[d]]
                     ELSE results
                /\ idx' = idx + 1
                /\ pc' = "idle"
    /\ UNCHANGED <<docs, monitored_cities, cache, pdf_path, text, li,
                   current_region, current_municipality, cuts, downloaded_for,
                   email_recipients, email_attempts, city_name, matches>>

\* Faulty variant: the filtered list is stored without `if filtered_cuts`.
FinishDoc_stores_empty ==
    /\ pc = "parsed"
    /\ IF cuts = <<>>
       THEN UNCHANGED <<results, filtered_cuts>>
       ELSE LET f == filter_cuts_by_city(cuts, monitored_cities)
                date == docs[idx].date
            IN  /\ filtered_cuts' = f
                /\ results' =
                     [d \in DOMAIN results \cup {date} |->
                         IF d = date THEN f ELSE results[d]]
    /\ idx' = idx + 1
    /\ pc' = "idle"
    /\ UNCHANGED <<docs, monitored_cities, cache, pdf_path, text, li,
                   current_region, current_municipality, cuts, downloaded_for,
                   email_recipients, email_attempts, city_name, matches>>

\* The rest of the loop body of check_for_cuts, from `if not cuts`.
FinishDoc ==
    /\ pc = "parsed"
    /\ IF cuts = <<>>
       THEN UNCHANGED <<results, filtered_cuts>>
       ELSE LET f == filter_cuts_by_city(cuts, monitored_cities)
                date == docs[idx].date
            IN  /\ filtered_cuts' = f
                /\ results' =
                     IF f # <<>>
                     THEN [d \in DOMAIN results \cup {date} |->
                             IF d = date THEN f ELSE results[d]]
                     ELSE results
    /\ idx' = idx + 1
    /\ pc' = "idle"
    /\ UNCHANGED <<docs, monitored_cities, cache, pdf_path, text, li,
                   current_region, current_municipality, cuts, downloaded_for,
                   email_recipients, email_attempts, city_name, matches>>

\* `return results`
Return ==
    /\ pc = "idle"
    /\ idx > Len(docs)
    /\ pc' = "done"
    /\ UNCHANGED <<docs, monitored_cities, cache, idx, results, pdf_path, text,
                   li, current_region, current_municipality, cuts,
                   filtered_cuts, downloaded_for, email_recipients,
                   email_attempts, city_name, matches>>

\* send_notification(recipients, subject, message): the number of messages
\* it tries to send, which is none without recipients.
send_notification(recipients) == IF recipients = <<>> THEN 0 ELSE 1

\* Faulty variant: the summary is mailed whatever the results.
Notify_always ==
    /\ pc = "done"
    /\ email_attempts' = email_attempts + send_notification(email_recipients)
    /\ pc' = "exit"
    /\ UNCHANGED <<docs, monitored_cities, cache, idx, results, pdf_path, text,
                   li, current_region, current_municipality, cuts,
                   filtered_cuts, downloaded_for, email_recipients, city_name,
                   matches>>

\* main after check_for_cuts returned: `if results and
\* notifier.config.get('email_recipients')`, its elif and its else.
Notify ==
    /\ pc = "done"
    /\ IF DOMAIN results # {} /\ email_recipients # <<>>
       THEN email_attempts' =
                email_attempts + send_notification(email_recipients)
       ELSE UNCHANGED email_attempts
    /\ pc' = "exit"
    /\ UNCHANGED <<docs, monitored_cities, cache, idx, results, pdf_path, text,
                   li, current_region, current_municipality, cuts,
                   filtered_cuts, downloaded_for, email_recipients, city_name,
                   matches>>

Next == Construct \/ StartDoc \/ ScanLine \/ FinishDoc \/ Return \/ Notify

Spec == Init /\ [][Next]_vars

\* parser.search_city(city_name) called on the parser.
FnSearch ==
    /\ pc = "fn_idle"
    /\ \E city \in CityNames :
           LET t == ensure_text(text, cache[pdf_path])
           IN  /\ text' = t
               /\ city_name' = city
               /\ matches' = search_city(t, city)
    /\ pc' = "searched"
    /\ UNCHANGED <<docs, monitored_cities, cache, idx, results, pdf_path, li,
                   current_region, current_municipality, cuts, filtered_cuts,
                   downloaded_for, email_recipients, email_attempts>>

\* parser.extract_cut_details() called on the parser.
FnExtract ==
    /\ pc \in {"fn_idle", "searched"}
    /\ begin_extract(cache[pdf_path], text)
    /\ UNCHANGED <<docs, monitored_cities, cache, idx, results, pdf_path,
                   filtered_cuts, downloaded_for, email_recipients,
                   email_attempts, city_name, matches>>

\* filter_cuts_by_city(cuts, cities) called on the cuts extracted.
FnFilter ==
    /\ pc = "parsed"
    /\ \E cities \in CityLists :
           /\ monitored_cities' = cities
           /\ filtered_cuts' = filter_cuts_by_city(cuts, cities)
    /\ pc' = "filtered"
    /\ UNCHANGED <<docs, cache, idx, results, pdf_path, text, li,
                   current_region, current_municipality, cuts, downloaded_for,
                   email_recipients, email_attempts, city_name, matches>>

FnNext == FnExtract \/ ScanLine \/ FnFilter

FnSpec == FnInit /\ [][FnNext]_vars

\* A parser used for search_city, for extract_cut_details, or for one after
\* the other.
SearchNext == FnSearch \/ FnExtract \/ ScanLine

SearchSpec == FnInit /\ [][SearchNext]_vars

\* ------------------------------------------------------------ properties
\* An extraction pass ran, or is running, over `text`; li - 1 lines are done.
InPass == pc \in {"scan", "parsed"} /\ pdf_path # NoPath /\ ~falsy(text)

\* The positions, in increasing order, of the lines among the first n of t
\* that cut_pattern matches.
cut_lines(t, n) ==
    LET matched(i) == cut_pattern_search(t[i]).found
    IN  SelectSeq([i \in 1..n |-> i], matched)

region_header(line) == region_pattern_search(line).found
municipality_header(line) == municipality_pattern_search(line).found

\* The pass agrees with extract_cut_details taken as one function.
PassAgrees ==
    (pc = "parsed" /\ pdf_path # NoPath)
        => cuts = extract_cut_details(cache[pdf_path])

\* C1: the records are those of the lines that match cut_pattern, one per
\* line and in the order of the lines: the k-th record holds the fields
\* captured from the k-th matching line, and there is no other record.
C1_StreamOrder ==
    InPass =>
        LET src == cut_lines(text, li - 1)
        IN  /\ Len(cuts) = Len(src)
            /\ \A k \in 1..Len(cuts) :
                 LET m == cut_pattern_search(text[src[k]])
                 IN  /\ cuts[k].full_line = strip(text[src[k]])
                     /\ cuts[k].location = strip(m.group1)
                     /\ cuts[k].date_start = m.tail.date_start
                     /\ cuts[k].time_start = m.tail.time_start
                     /\ cuts[k].date_end = m.tail.date_end
                     /\ cuts[k].time_end = m.tail.time_end

\* Two different cut lines with a line between them that yields no record.
C1_Witness ==
    /\ InPass /\ pc = "parsed"
    /\ text = <<LineCutLower, LineNoise, LineCut>>
    /\ Len(cuts) = 2
    /\ cuts[1].location = <<"s">>
    /\ cuts[2].location = <<"S", "-", "P">>

\* C2: a record from line j carries the trimmed name of the region header at
\* line i < j when no region header is matched on lines i+1..j.
C2_ContextCarry ==
    InPass =>
        LET src == cut_lines(text, li - 1)
        IN  \A k \in 1..Len(cuts) : k <= Len(src) =>
              \A i \in 1..(src[k] - 1) :
                 (/\ region_header(text[i])
                  /\ \A n \in (i + 1)..src[k] : ~region_header(text[n]))
                 => cuts[k].region = strip(region_pattern_search(text[i]).group)

\* A padded header, a line in between, then a cut that carries the trimmed name.
C2_Witness ==
    /\ InPass /\ pc = "parsed"
    /\ text = <<LineRegion, LineRegionPadded, LineNoise, LineCut>> \/
       text = <<LineRegionPadded, LineNoise, LineCut>>
    /\ Len(cuts) = 1
    /\ cuts[1].region = <<"S">>
    /\ region_pattern_search(LineRegionPadded).group = <<SP, "S", SP>>

\* C3: every record has a non-empty location, date_start, date_end,
\* time_start and time_end; a line whose captured location is only
\* whitespace yields no record.
C3_RequiredFieldsNonEmpty ==
    InPass =>
        \A k \in 1..Len(cuts) :
            /\ cuts[k].location # <<>>
            /\ cuts[k].date_start # <<>>
            /\ cuts[k].date_end # <<>>
            /\ cuts[k].time_start # <<>>
            /\ cuts[k].time_end # <<>>

\* C4: in check_for_cuts the region and municipality of a record of the
\* current pass come from a header of the text this pass reads, at or before
\* the record's line; with no such header they are None, whatever the passes
\* over earlier documents held.
C4_ContextIsolation ==
    InPass =>
        LET src == cut_lines(text, li - 1)
        IN  \A k \in 1..Len(cuts) : k <= Len(src) =>
              /\ cuts[k].region \in
                   {None} \cup {strip(region_pattern_search(text[i]).group) :
                                  i \in {n \in 1..src[k] : region_header(text[n])}}
              /\ cuts[k].municipality \in
                   {None} \cup {strip(municipality_pattern_search(text[i]).group) :
                                  i \in {n \in 1..src[k] : municipality_header(text[n])}}
              /\ (\A n \in 1..src[k] : ~region_header(text[n]))
                   => cuts[k].region = None
              /\ (\A n \in 1..src[k] : ~municipality_header(text[n]))
                   => cuts[k].municipality = None

\* The second document has no header and yields a record without region,
\* after a first document whose records carry region P.
C4_Witness ==
    /\ pc = "parsed" /\ idx = 2 /\ InPass
    /\ \A n \in 1..Len(text) : ~region_header(text[n])
    /\ Len(cuts) = 1 /\ cuts[1].region = None /\ cuts[1].municipality = None
    /\ docs[1].date \in DOMAIN results
    /\ results[docs[1].date][1].region = <<"P">>

\* Case folding to lower case, character by character.
lower_char(c) ==
    CASE c = "S" -> "s"
      [] c = "P" -> "p"
      [] c = KwPart -> "chast ot"
      [] c = KwIndividual -> "za individualna"
      [] OTHER -> c

lower(s) == [i \in 1..Len(s) |-> lower_char(s[i])]

\* The location contains one of the names, letter case ignored.
monitored(cut, cities) ==
    \E k \in 1..Len(cities) : str_in(lower(cities[k]), lower(cut.location))

\* C5: with a non-empty list of names, the result is the subsequence, in
\* input order, of the records whose location contains one of the names as a
\* substring, letter case ignored.
C5_FilterSelects ==
    (pc = "filtered" /\ ~no_cities(monitored_cities)) =>
        LET keep(cut) == monitored(cut, monitored_cities)
        IN  filtered_cuts = SelectSeq(cuts, keep)

\* The lower-case name s selects the location S-P and excludes another record.
C5_Witness ==
    /\ pc = "filtered"
    /\ monitored_cities = << <<"s">> >>
    /\ Len(cuts) = 2 /\ Len(filtered_cuts) = 1
    /\ filtered_cuts[1].location = <<"S", "-", "P">>
    /\ cuts[1].location = <<"P">>

\* C6: with an empty or missing list of names the records are returned
\* unchanged.
C6_FilterPassThrough ==
    (pc = "filtered" /\ no_cities(monitored_cities)) => filtered_cuts = cuts

C6_Witness ==
    /\ pc = "filtered"
    /\ monitored_cities = <<>>
    /\ Len(cuts) = 3
    /\ filtered_cuts = cuts

\* a is b with some positions left out.
RECURSIVE is_subsequence(_, _)
is_subsequence(a, b) ==
    IF a = <<>> THEN TRUE
    ELSE IF b = <<>> THEN FALSE
    ELSE IF Head(a) = Head(b) THEN is_subsequence(Tail(a), Tail(b))
    ELSE is_subsequence(a, Tail(b))

\* C7: each input record appears at most once in the result: the result is
\* the input with some positions left out, so it is never longer.
C7_FilterNoDuplicates ==
    pc = "filtered" =>
        /\ Len(filtered_cuts) <= Len(cuts)
        /\ is_subsequence(filtered_cuts, cuts)

\* The location S-P contains both monitored names, P and S-P, and is kept once.
C7_Witness ==
    /\ pc = "filtered"
    /\ monitored_cities = << <<"P">>, <<"S", "-", "P">> >>
    /\ Len(cuts) = 1
    /\ cuts[1].location = <<"S", "-", "P">>
    /\ filtered_cuts = cuts

\* The document just parsed could not be downloaded, or its file could not be
\* turned into text.
unreadable_source ==
    pdf_path = NoPath \/ extract_text(cache[pdf_path]) = NoText

\* The matching cuts of the j-th document: those of the file parsed for it.
matching_cuts(j) ==
    filter_cuts_by_city(extract_cut_details(cache[docs[j].date]), monitored_cities)

\* C8: a document that cannot be downloaded or decoded yields no cuts and
\* leaves the results alone; check_for_cuts returns only after the last
\* document, and then the matching cuts of every document are in the results
\* under its date.
C8_UnreadableSource ==
    /\ (pc = "parsed" /\ unreadable_source) => cuts = <<>>
    /\ pc = "done" => idx = Len(docs) + 1
    /\ pc = "done" =>
         \A j \in 1..Len(docs) :
            matching_cuts(j) # <<>> =>
               /\ docs[j].date \in DOMAIN results
               /\ results[docs[j].date] = matching_cuts(j)

\* The first document had no readable source, the second one's cuts are in the
\* results returned.
C8_Witness ==
    /\ pc = "done" /\ Len(docs) = 2
    /\ docs[1].date # docs[2].date
    /\ ~cache[docs[1].date].exists \/ cache[docs[1].date] = Garbage
    /\ docs[2].date \in DOMAIN results
    /\ results[docs[2].date] # <<>>

\* The lines of a text that are not empty.
non_empty_lines(t) ==
    LET present(line) == line # <<>>
    IN  SelectSeq(t, present)

\* The lines of the pages that yield a text, in page order.
RECURSIVE decoded_lines(_)
decoded_lines(ps) ==
    IF ps = <<>> THEN <<>>
    ELSE (IF Head(ps).ok THEN Head(ps).text ELSE <<>>) \o decoded_lines(Tail(ps))

\* C9: the pages that yield text contribute their lines, in order, to the
\* text that is parsed; a page that fails or has no text contributes none.
C9_PartialUnreadability ==
    (pc \in {"scan", "parsed"} /\ pdf_path # NoPath /\ cache[pdf_path].readable) =>
        non_empty_lines(text) = non_empty_lines(decoded_lines(cache[pdf_path].pages))

\* C10: a line that matches cut_pattern with no region header (no
\* municipality header) at or before it still yields its record, with region
\* (municipality) None.
C10_NoHeaderStillEmits ==
    InPass =>
        LET src == cut_lines(text, li - 1)
        IN  /\ Len(cuts) = Len(src)
            /\ \A k \in 1..Len(src) : k <= Len(cuts) =>
                 /\ (\A n \in 1..src[k] : ~region_header(text[n]))
                      => (cuts[k].full_line = strip(text[src[k]])
                            /\ cuts[k].region = None)
                 /\ (\A n \in 1..src[k] : ~municipality_header(text[n]))
                      => (cuts[k].full_line = strip(text[src[k]])
                            /\ cuts[k].municipality = None)

\* A cut before any header is recorded without region and municipality; the
\* cut after the header carries the region.
C10_Witness ==
    /\ InPass /\ pc = "parsed"
    /\ text = <<LineCut, LineRegion, LineCutLower>>
    /\ Len(cuts) = 2
    /\ cuts[1].region = None /\ cuts[1].municipality = None
    /\ cuts[2].region = <<"P">> /\ cuts[2].municipality = None

\* search_city was called on the parser with city_name.
Searched == pc \in {"searched", "scan", "parsed"} /\ city_name # None

\* The positions of the lines of t that contain city as a case-insensitive
\* substring.
hit_lines(t, city) ==
    {i \in 1..Len(t) : str_in(lower(city), lower(t[i]))}

\* The entries are one per line that contains the city, in increasing
\* position order and numbered from 1; none when no text was extracted.
search_entries ==
    IF falsy(text) THEN matches = <<>>
    ELSE /\ Len(matches) = Cardinality(hit_lines(text, city_name))
         /\ \A k \in 1..Len(matches) :
                matches[k].line_number \in hit_lines(text, city_name)
         /\ \A k \in 1..(Len(matches) - 1) :
                matches[k].line_number < matches[k + 1].line_number

\* A later extract_cut_details returns what it returns on a new parser.
search_leaves_extraction ==
    pc = "parsed" => cuts = extract_cut_details(cache[pdf_path])

\* C11 as stated: search_city returns one entry for exactly each line that
\* contains the literal as a case-insensitive substring, each entry carrying
\* that line and its 1-based position, in increasing position order; an
\* empty list when no text could be extracted; a later extract_cut_details
\* is unchanged.
C11_SearchCarriesLine ==
    Searched =>
        /\ search_entries
        /\ \A k \in 1..Len(matches) :
               matches[k].text = text[matches[k].line_number]
        /\ search_leaves_extraction

\* C11, amended: as above, but each entry carries its line with the leading
\* and trailing whitespace removed.
C11_SearchCity ==
    Searched =>
        /\ search_entries
        /\ \A k \in 1..Len(matches) :
               matches[k].text = strip(text[matches[k].line_number])
        /\ search_leaves_extraction

\* A search for "s" hits lines 1 and 3 in either case, the first of which
\* begins with a space; the extraction that follows finds both cuts.
C11_Witness ==
    /\ Searched /\ pc = "parsed"
    /\ text = <<LineCutLower, LineNoise, LineCut>>
    /\ city_name = <<"s">>
    /\ Len(matches) = 2
    /\ matches[1].line_number = 1 /\ matches[2].line_number = 3
    /\ matches[1].text # LineCutLower
    /\ Len(cuts) = 2

\* No recognizer matches the line.
unmatched(line) ==
    /\ ~region_header(line)
    /\ ~municipality_header(line)
    /\ ~cut_pattern_search(line).found

\* C12: when no line of the stream matches any recognizer, or the stream is
\* empty, extract_cut_details has no record at any point and returns the
\* empty list, and filtering that result with any list of cities gives the
\* empty list.
C12_NoMatchEmpty ==
    (/\ pc \in {"scan", "parsed", "filtered"}
     /\ falsy(text) \/ \A i \in 1..Len(text) : unmatched(text[i]))
        => /\ cuts = <<>>
           /\ pc = "filtered" => filtered_cuts = <<>>

\* A text of noise and of a malformed cut was extracted and then filtered for
\* the city the malformed cut names.
C12_Witness ==
    /\ pc = "filtered"
    /\ text = <<LineNoise, LineMalformed>>
    /\ monitored_cities = << <<"P">>, <<"S", "-", "P">> >>
    /\ cuts = <<>>
    /\ filtered_cuts = <<>>

\* The positions of a line where an occurrence of the cut-detail pattern
\* starts: "Chast ot ", then some location, then the four date/time fields.
cut_starts(line) ==
    {s \in 1..(Len(line) - 1) :
        /\ line[s] = KwPart /\ line[s + 1] = SP
        /\ \E e \in (s + 3)..Len(line) : cut_tail(line, e).ok}

\* Where the date/time fields of the occurrence that starts at s begin.
cut_fields_at(line, s) ==
    SetMin({e \in (s + 3)..Len(line) : cut_tail(line, e).ok})

\* C13: a line contributes at most one record, so there are never more
\* records than lines read; the record of a line holds the location and the
\* date/time fields of the leftmost occurrence of the cut-detail pattern on
\* that line.
C13_OneRecordPerLine ==
    InPass =>
        LET src == cut_lines(text, li - 1)
        IN  /\ Len(cuts) <= li - 1
            /\ Len(cuts) =
                 Cardinality({i \in 1..(li - 1) : cut_starts(text[i]) # {}})
            /\ \A k \in 1..Len(cuts) : k <= Len(src) =>
                 LET line == text[src[k]]
                     s == SetMin(cut_starts(line))
                     e == cut_fields_at(line, s)
                 IN  /\ cuts[k].location = strip(SubSeq(line, s + 2, e - 1))
                     /\ cuts[k].date_start = cut_tail(line, e).date_start
                     /\ cuts[k].time_start = cut_tail(line, e).time_start
                     /\ cuts[k].date_end = cut_tail(line, e).date_end
                     /\ cuts[k].time_end = cut_tail(line, e).time_end

\* A line with two occurrences gave the record of the first one only.
C13_Witness ==
    /\ InPass /\ pc = "parsed"
    /\ text = <<LineNoise, LineTwoCuts>>
    /\ Cardinality(cut_starts(LineTwoCuts)) = 2
    /\ Len(cuts) = 1
    /\ cuts[1].location = <<"S">>
    /\ cuts[1].date_start = <<D1>>

\* C14: on every line each recognizer that matches fires, the headers
\* before the cut detail: after a line that matches a header the context
\* holds the name captured from it, a header adds no record (the records
\* are as many as the lines that match the cut-detail pattern), and the
\* record of a line that matches a header too carries the name captured
\* from that same line.
C14_RecognizerOrder ==
    InPass =>
        LET src == cut_lines(text, li - 1)
        IN  /\ Len(cuts) = Len(src)
            /\ (li > 1 /\ region_header(text[li - 1])) =>
                    current_region =
                        strip(region_pattern_search(text[li - 1]).group)
            /\ (li > 1 /\ municipality_header(text[li - 1])) =>
                    current_municipality =
                        strip(municipality_pattern_search(text[li - 1]).group)
            /\ \A k \in 1..Len(cuts) : k <= Len(src) =>
                 LET line == text[src[k]]
                 IN  /\ region_header(line) =>
                            cuts[k].region =
                                strip(region_pattern_search(line).group)
                     /\ municipality_header(line) =>
                            cuts[k].municipality =
                                strip(municipality_pattern_search(line).group)

\* Region P was held when a line with the header of region S and a cut was
\* read: the record carries S.
C14_Witness ==
    /\ InPass /\ pc = "parsed"
    /\ text = <<LineRegion, LineRegionAndCut>>
    /\ Len(cuts) = 1
    /\ cuts[1].region = <<"S">>
    /\ cuts[1].location = <<"P">>
    /\ current_region = <<"S">>

\* A character that is a date or a time, well formed or not.
date_or_time(c) == c \in Dates \cup Times \cup {BadDate}

\* The line begins a cut detail ("Chast ot " at s) whose date/time fields
\* are missing or malformed: no date or time follows, or the first one does
\* not start a run of date, time, date, time.
malformed_detail(line) ==
    LET parts == {s \in 1..(Len(line) - 1) :
                      line[s] = KwPart /\ line[s + 1] = SP}
    IN  /\ parts # {}
        /\ LET s == SetMin(parts)
               fields == {a \in (s + 2)..Len(line) : date_or_time(line[a])}
           IN  \/ fields = {}
               \/ LET a == SetMin(fields)
                  IN  ~(a > s + 3 /\ line[a - 1] = SP
                        /\ \E e \in (s + 3)..(a - 1) :
                              skip_space(line, e) = a /\ cut_tail(line, e).ok)

\* C15: a line that begins a cut detail with a missing or malformed
\* date/time field produces no record; the four date/time fields of every
\* record are well-formed values, and no record's location contains a date
\* or a time.
C15_MalformedNoRecord ==
    InPass =>
        LET src == cut_lines(text, li - 1)
        IN  /\ \A i \in 1..(li - 1) :
                 malformed_detail(text[i]) =>
                     \A k \in 1..Len(src) : src[k] # i
            /\ \A k \in 1..Len(cuts) :
                 /\ cuts[k].date_start \in {<<d>> : d \in Dates}
                 /\ cuts[k].time_start \in {<<t>> : t \in Times}
                 /\ cuts[k].date_end \in {<<d>> : d \in Dates}
                 /\ cuts[k].time_end \in {<<t>> : t \in Times}
                 /\ \A j \in 1..Len(cuts[k].location) :
                        ~date_or_time(cuts[k].location[j])

\* The trimmed name of the last region header among the first n lines of t,
\* None when there is none; the same for the municipality headers.
last_region(t, n) ==
    LET H == {i \in 1..n : region_header(t[i])}
    IN  IF H = {} THEN None
        ELSE strip(region_pattern_search(t[SetMax(H)]).group)

last_municipality(t, n) ==
    LET H == {i \in 1..n : municipality_header(t[i])}
    IN  IF H = {} THEN None
        ELSE strip(municipality_pattern_search(t[SetMax(H)]).group)

\* C16: each context field is changed by its own header only and is never
\* cleared during the pass: current_region is the name of the last region
\* header read so far and current_municipality the name of the last
\* municipality header read so far, whatever other lines came in between,
\* and a record carries the two names as they were at its line.
C16_ContextIndependent ==
    InPass =>
        LET src == cut_lines(text, li - 1)
        IN  /\ current_region = last_region(text, li - 1)
            /\ current_municipality = last_municipality(text, li - 1)
            /\ \A k \in 1..Len(cuts) : k <= Len(src) =>
                 /\ cuts[k].region = last_region(text, src[k])
                 /\ cuts[k].municipality = last_municipality(text, src[k])

\* Municipality P was set before the header of region S; the cut after that
\* header still carries municipality P.
C16_Witness ==
    /\ InPass /\ pc = "parsed"
    /\ text = <<LineMunicipality, LineRegionPadded, LineCut>>
    /\ Len(cuts) = 1
    /\ cuts[1].region = <<"S">>
    /\ cuts[1].municipality = <<"P">>
    /\ current_municipality = <<"P">>

\* C17: the cuts download_and_parse_pdf returns for a document are those of
\* the file fetched with that document's own doc_id: the file parsed for
\* the current document, whether just downloaded or found in the cache, was
\* downloaded for it; a failed download returns no cuts without parsing.
C17_OwnDocument ==
    (pc \in {"scan", "parsed"} /\ idx <= Len(docs)) =>
        IF pdf_path = NoPath
        THEN pc = "parsed" /\ cuts = <<>>
        ELSE /\ downloaded_for[pdf_path] = docs[idx].doc_id
             /\ pc = "parsed" => cuts = extract_cut_details(cache[pdf_path])

\* check_for_cuts is running or has returned; the documents before idx are
\* processed.
InCheck == pc \in {"idle", "scan", "parsed", "done", "exit"}

\* The elements of a sequence.
elements(q) == {q[k] : k \in 1..Len(q)}

\* The cuts download_and_parse_pdf returned for the processed document j:
\* those of the file of its date, or none when there was no such file for it
\* (there is none, or a later document downloaded it).
returned_cuts(j) ==
    LET d == docs[j].date
        later == {docs[i].doc_id : i \in (j + 1)..Len(docs)}
    IN  IF cache[d].exists /\ downloaded_for[d] \notin later
        THEN extract_cut_details(cache[d])
        ELSE <<>>

returned_matching_cuts(j) ==
    filter_cuts_by_city(returned_cuts(j), monitored_cities)

\* C18: at every point of check_for_cuts and when it has returned, each
\* date of the results maps to a non-empty list, the matching cuts of a
\* processed document of that date: records extracted from the file parsed
\* for it, each with a location that contains a monitored city; so a
\* document without cuts or without matching cuts adds no key; and the
\* matching cuts of every processed document are in the results under its
\* date.
C18_ResultsInvariant ==
    InCheck =>
        /\ \A d \in DOMAIN results :
              /\ results[d] # <<>>
              /\ \E j \in 1..(idx - 1) :
                    /\ j <= Len(docs) /\ docs[j].date = d
                    /\ results[d] = returned_matching_cuts(j)
              /\ \A r \in elements(results[d]) :
                    /\ r \in elements(extract_cut_details(cache[d]))
                    /\ monitored(r, monitored_cities)
        /\ \A j \in 1..(idx - 1) :
              (j <= Len(docs) /\ returned_matching_cuts(j) # <<>>) =>
                   /\ docs[j].date \in DOMAIN results
                   /\ results[docs[j].date] = returned_matching_cuts(j)

\* Two documents were processed; the first has matching cuts and a key, the
\* second has cuts, none of them in a monitored city, and no key.
C18_Witness ==
    /\ pc = "done" /\ Len(docs) = 2
    /\ docs[1].date # docs[2].date
    /\ DOMAIN results = {docs[1].date}
    /\ results[docs[1].date] = matching_cuts(1)
    /\ extract_cut_details(cache[docs[2].date]) # <<>>
    /\ matching_cuts(2) = <<>>

\* check_for_cuts returned at least one date with matching cuts, and there
\* are recipients.
cuts_to_report == DOMAIN results # {} /\ email_recipients # <<>>

\* C19: in a run of main an email is attempted exactly when check_for_cuts
\* returned at least one date with matching cuts and the list of recipients
\* is not empty; it is attempted at most once, only after check_for_cuts
\* has processed every document and returned, and never when no cut
\* matched.
C19_NotifyOnce ==
    /\ email_attempts \in {0, 1}
    /\ email_attempts = 1 =>
          /\ pc = "exit"
          /\ idx = Len(docs) + 1
          /\ cuts_to_report
    /\ pc = "exit" => (email_attempts = 1 <=> cuts_to_report)
    /\ DOMAIN results = {} => email_attempts = 0

\* A run over two documents ended with one email attempted; the results
\* hold matching cuts.
C19_Witness ==
    /\ pc = "exit" /\ Len(docs) = 2
    /\ email_attempts = 1
    /\ email_recipients = <<"r">>
    /\ \E d \in DOMAIN results : results[d] # <<>>
====
